---- MODULE Spec2Model ----
(***************************************************************************)
(* Model of knowledge-repo: the folder backend's reference store           *)
(* (repositories/folder.py), the hook-aware commit path and the pinned     *)
(* tooling checkout (utils/git.py, scripts/kr.py).                         *)
(***************************************************************************)
EXTENDS Integers, Sequences, FiniteSets, TLC

(***************************************************************************)
(* Bounds                                                                  *)
(***************************************************************************)
\* cap on the number of add calls per post
MaxAdds == 2
\* cap on the number of references an added post carries
MaxKpRefs == 1
\* cap on the number of IndexFileWrapper.commit calls
MaxCalls == 2
\* cap on the number of runs of the pinned-tooling re-execution
MaxRuns == 2
\* callers of _kp_new_revision on one post
MaxBumpers == 2
\* folders in the repository directory that _dir walks
MaxFolders == 3
\* --repo values on one command line
MaxRepos == 2
\* lines of a markdown text
MaxLines == 4

\* the post path the model follows
Posts == {"post.kp"}

(***************************************************************************)
(* Reference names are paths inside a post: sequences of components.       *)
(***************************************************************************)
REVISION == <<"REVISION">>
UUID == <<"UUID">>
Reserved == {REVISION, UUID}
ContentNames == {<<"d">>, <<"d", "b">>}
Names == Reserved \cup ContentNames
\* the values of the 'parent' argument of _kp_dir; <<>> is None / ""
Parents == {<<>>, <<"d">>}

Dirname(n) == SubSeq(n, 1, Len(n) - 1)
IsPrefix(d, n) == Len(d) <= Len(n) /\ SubSeq(n, 1, Len(d)) = d
Relpath(n, d) == SubSeq(n, Len(d) + 1, Len(n))
\* the proper, non-empty ancestors of a name together with the name itself
Prefixes(n) == {SubSeq(n, 1, k) : k \in 1..Len(n)}

(***************************************************************************)
(* Bytes are sequences of one-character strings.                           *)
(***************************************************************************)
DigitChars == <<"0", "1", "2", "3", "4", "5", "6", "7", "8", "9">>
IsDigit(c) == \E i \in 1..10 : DigitChars[i] = c
DigitVal(c) == (CHOOSE i \in 1..10 : DigitChars[i] = c) - 1

RECURSIVE DecStr(_)
DecStr(n) == IF n < 10 THEN <<DigitChars[n + 1]>>
             ELSE Append(DecStr(n \div 10), DigitChars[(n % 10) + 1])

\* utils.encoding.encode: an int becomes its decimal ASCII text, bytes stay
encodeInt(n) == DecStr(n)
encodeBytes(b) == b

RECURSIVE DecVal(_)
DecVal(s) == IF Len(s) = 0 THEN 0
             ELSE 10 * DecVal(SubSeq(s, 1, Len(s) - 1)) + DigitVal(s[Len(s)])

\* int(bytes): raises ValueError unless the text is a decimal number
IntParses(s) == Len(s) > 0 /\ \A i \in 1..Len(s) : IsDigit(s[i])

NoData == <<>>
ContentData == {<<"x">>, <<"9">>}
Uuids == {<<"u", "1">>, <<"u", "2">>}

(***************************************************************************)
(* What exists at a post path: nothing, a packed archive (one file) or an  *)
(* expanded directory tree.  refs maps the names of the stored files (or   *)
(* archive members) to their bytes, dirs is the set of sub-directories.    *)
(***************************************************************************)
EmptyRefs == [n \in {} |-> NoData]
Absent == [kind |-> "none", refs |-> EmptyRefs, dirs |-> {}]
Packed(refs) == [kind |-> "file", refs |-> refs, dirs |-> {}]
Expanded(refs, dirs) == [kind |-> "dir", refs |-> refs, dirs |-> dirs]

isfile(node) == node.kind = "file"
isdir(node) == node.kind = "dir"
exists(node) == node.kind # "none"

\* os.path.* on a path below the post path
isfileAt(node, n) == isdir(node) /\ n \in DOMAIN node.refs
isdirAt(node, n) == IF n = <<>> THEN isdir(node) ELSE isdir(node) /\ n \in node.dirs
existsAt(node, n) == IF n = <<>> THEN exists(node) ELSE isfileAt(node, n) \/ isdirAt(node, n)

Ok(node) == [ok |-> TRUE, node |-> node]
Fail(node) == [ok |-> FALSE, node |-> node]

Put(refs, n, data) == [m \in DOMAIN refs \cup {n} |-> IF m = n THEN data ELSE refs[m]]

\* os.makedirs(post/d): creates the post directory and every missing
\* ancestor; fails when a component of the path is a file
makedirs(node, d) ==
    IF isfile(node) \/ \E q \in Prefixes(d) : isfileAt(node, q)
    THEN Fail(node)
    ELSE Ok(Expanded(node.refs, node.dirs \cup Prefixes(d)))

\* utils.files.write_binary: open(path, 'wb') and write
write_binary(node, n, data) ==
    IF isdirAt(node, Dirname(n)) /\ ~isdirAt(node, n)
    THEN Ok(Expanded(Put(node.refs, n, data), node.dirs))
    ELSE Fail(node)

Data(d) == [ok |-> TRUE, data |-> d]
Raise == [ok |-> FALSE, data |-> NoData]

\* utils.files.read_binary: open(path, 'rb') and read
read_binary(node, n) ==
    IF isfileAt(node, n) THEN Data(node.refs[n]) ELSE Raise

(***************************************************************************)
(* KnowledgePost and its packed ("kp") archive form                        *)
(***************************************************************************)
\* KnowledgePost.from_file(path, format="kp"): the references of the archive
KP_from_file(node) ==
    IF isfile(node) THEN [ok |-> TRUE, refs |-> node.refs]
    ELSE [ok |-> FALSE, refs |-> EmptyRefs]
KP_to_file(refs) == Packed(refs)
KP_write_ref(refs, n, data) == Put(refs, n, data)
KP_read_ref(refs, n) == IF n \in DOMAIN refs THEN Data(refs[n]) ELSE Raise
KP_has_ref(refs, n) == n \in DOMAIN refs
KP_dir(refs, parent) ==
    {Relpath(n, parent) :
       n \in {m \in DOMAIN refs : m \notin Reserved /\ IsPrefix(parent, m) /\ m # parent}}

(***************************************************************************)
(* FolderKnowledgeRepository: the reference store                          *)
(***************************************************************************)
\* variant: the expanded branch joins only the file name, not the reference
_kp_write_ref_flat(node, reference, data) ==
    IF isfile(node)
    THEN Ok(KP_to_file(KP_write_ref(KP_from_file(node).refs, reference, data)))
    ELSE LET ref_dir == Dirname(reference)
             made == IF ~existsAt(node, ref_dir) THEN makedirs(node, ref_dir)
                     ELSE Ok(node)
         IN  IF made.ok THEN write_binary(made.node, <<reference[Len(reference)]>>, data)
             ELSE made

_kp_write_ref(node, reference, data) ==
    IF isfile(node)
    THEN Ok(KP_to_file(KP_write_ref(KP_from_file(node).refs, reference, data)))
    ELSE LET ref_dir == Dirname(reference)
             made == IF ~existsAt(node, ref_dir) THEN makedirs(node, ref_dir)
                     ELSE Ok(node)
         IN  IF made.ok THEN write_binary(made.node, reference, data) ELSE made

_kp_read_ref(node, reference) ==
    IF isdir(node) THEN read_binary(node, reference)
    ELSE LET kp == KP_from_file(node)
         IN  IF kp.ok THEN KP_read_ref(kp.refs, reference) ELSE Raise

_kp_has_ref(node, reference) ==
    IF isdir(node) THEN [ok |-> TRUE, val |-> isfileAt(node, reference)]
    ELSE LET kp == KP_from_file(node)
         IN  IF kp.ok THEN [ok |-> TRUE, val |-> KP_has_ref(kp.refs, reference)]
             ELSE [ok |-> FALSE, val |-> FALSE]

\* os.walk(os.path.join(self.path, path)) walks an absolute directory:
\* dirpath is the repository path, the post path and the sub-directory
AbsPost == <<"repo", "post.kp">>
walk_dirpath(parent, n) == AbsPost \o Dirname(n)
walk_filename(n) == n[Len(n)]

_kp_dir(node, parent) ==
    IF isdir(node)
    THEN [ok |-> TRUE,
          names |-> {Relpath(n, parent) :
                       n \in {m \in DOMAIN node.refs :
                                /\ IsPrefix(parent, m) /\ m # parent
                                /\ ~(walk_dirpath(parent, m) = <<>>
                                     /\ walk_filename(m) = "REVISION")}}]
    ELSE LET kp == KP_from_file(node)
         IN  IF kp.ok THEN [ok |-> TRUE, names |-> KP_dir(kp.refs, parent)]
             ELSE [ok |-> FALSE, names |-> {}]

_kp_get_revision(node) ==
    LET r == _kp_read_ref(node, REVISION)
    IN  IF r.ok /\ IntParses(r.data) THEN DecVal(r.data) ELSE 0

\* None is modelled as the empty byte string
_kp_uuid(node) ==
    LET r == _kp_read_ref(node, UUID)
    IN  IF r.ok THEN r.data ELSE NoData

\* variant: the increment is dropped
_kp_new_revision_same(node, uuid) ==
    LET w == _kp_write_ref(node, REVISION, encodeInt(_kp_get_revision(node)))
    IN  IF ~w.ok THEN w
        ELSE IF uuid # NoData THEN _kp_write_ref(w.node, UUID, encodeBytes(uuid))
        ELSE w

_kp_new_revision(node, uuid) ==
    LET w == _kp_write_ref(node, REVISION, encodeInt(_kp_get_revision(node) + 1))
    IN  IF ~w.ok THEN w
        ELSE IF uuid # NoData THEN _kp_write_ref(w.node, UUID, encodeBytes(uuid))
        ELSE w

\* variant: a post counts as published only from its second revision on
_kp_status_draft(node) == IF _kp_get_revision(node) > 1 THEN "PUBLISHED" ELSE "DRAFT"

_kp_status(node) == "PUBLISHED"

_kp_exists(node) == exists(node)

\* shutil.rmtree(os.path.join(self.path, path)): removes a directory tree,
\* raises on a plain file (NotADirectoryError) and on a missing path
_remove(node) == IF isdir(node) THEN Ok(Absent) ELSE Fail(node)

(***************************************************************************)
(* KnowledgeRepository.add: saves the references of the post, then makes   *)
(* one new revision carrying the post's UUID (the stored one if present).  *)
(***************************************************************************)
RECURSIVE WriteAll(_, _)
WriteAll(node, kp) ==
    IF Len(kp) = 0 THEN Ok(node)
    ELSE LET w == _kp_write_ref(node, kp[1].name, kp[1].data)
         IN  IF w.ok THEN WriteAll(w.node, Tail(kp)) ELSE w

add(node, kp, uuid, update) ==
    IF ~update /\ _kp_exists(node) THEN Fail(node)
    ELSE LET w == WriteAll(node, kp)
             stored == _kp_uuid(node)
         IN  IF ~w.ok THEN w
             ELSE _kp_new_revision(w.node, IF stored # NoData THEN stored ELSE uuid)

KpRef == [name : ContentNames, data : ContentData]
Kps == {kp \in UNION {[1..k -> KpRef] : k \in 0..MaxKpRefs} :
          \A i, j \in DOMAIN kp : i # j => kp[i].name # kp[j].name}

(***************************************************************************)
(* State of the folder repository                                          *)
(***************************************************************************)
VARIABLES
    disk,      \* what is stored at each post path
    lastw,     \* per post: the bytes last written to each name (history)
    adds,      \* per post: successful add calls since the post was created
    first,     \* per post: the UUID stored by the first add (history)
    direct,    \* per post: a reserved reference was written by hand
    last       \* the last call and its result

storeVars == <<disk, lastw, adds, first, direct, last>>

NoCall == [op |-> "none", post |-> "", name |-> <<>>, ok |-> TRUE, data |-> NoData,
           flag |-> FALSE, names |-> {}, pre |-> "none", revision |-> 0]
Call(op, p, n, ok) == [NoCall EXCEPT !.op = op, !.post = p, !.name = n, !.ok = ok,
                                      !.pre = disk[p].kind]

InitDisk == {Absent, Packed(EmptyRefs), Packed([n \in {<<"d">>} |-> <<"x">>])}

StoreInit ==
    /\ disk \in [Posts -> InitDisk]
    /\ lastw = [p \in Posts |-> EmptyRefs]
    /\ adds = [p \in Posts |-> 0]
    /\ first = [p \in Posts |-> NoData]
    /\ direct = [p \in Posts |-> FALSE]
    /\ last = NoCall

Write(p, n, d) ==
    \E w \in {_kp_write_ref(disk[p], n, d)} :
        /\ disk' = [disk EXCEPT ![p] = w.node]
        /\ lastw' = IF w.ok THEN [lastw EXCEPT ![p] = Put(@, n, d)] ELSE lastw
        /\ direct' = [direct EXCEPT ![p] = @ \/ (w.ok /\ n \in Reserved)]
        /\ last' = Call("write", p, n, w.ok)
        /\ UNCHANGED <<adds, first>>

Read(p, n) ==
    \E r \in {_kp_read_ref(disk[p], n)} :
        /\ last' = [Call("read", p, n, r.ok) EXCEPT !.data = r.data]
        /\ UNCHANGED <<disk, lastw, adds, first, direct>>

Exists(p, n) ==
    \E r \in {_kp_has_ref(disk[p], n)} :
        /\ last' = [Call("exists", p, n, r.ok) EXCEPT !.flag = r.val]
        /\ UNCHANGED <<disk, lastw, adds, first, direct>>

List(p, parent) ==
    \E r \in {_kp_dir(disk[p], parent)} :
        /\ last' = [Call("list", p, parent, r.ok) EXCEPT !.names = r.names]
        /\ UNCHANGED <<disk, lastw, adds, first, direct>>

\* the references an add leaves written, also when a later one fails
RECURSIVE Written(_, _, _)
Written(node, kp, done) ==
    IF Len(kp) = 0 THEN done
    ELSE LET w == _kp_write_ref(node, kp[1].name, kp[1].data)
         IN  IF w.ok THEN Written(w.node, Tail(kp), Put(done, kp[1].name, kp[1].data))
             ELSE done

Add(p, kp, uuid, update) ==
    /\ adds[p] < MaxAdds
    /\ \E r \in {add(disk[p], kp, uuid, update)},
          w \in {IF update \/ ~_kp_exists(disk[p])
                 THEN Written(disk[p], kp, lastw[p]) ELSE lastw[p]} :
        /\ disk' = [disk EXCEPT ![p] = r.node]
        /\ lastw' = [lastw EXCEPT ![p] =
                       IF r.ok
                       THEN Put(Put(w, REVISION, r.node.refs[REVISION]),
                                UUID, r.node.refs[UUID])
                       ELSE w]
        /\ adds' = [adds EXCEPT ![p] = IF r.ok THEN @ + 1 ELSE @]
        /\ first' = [first EXCEPT ![p] = IF r.ok /\ adds[p] = 0
                                         THEN _kp_uuid(r.node) ELSE @]
        /\ last' = Call("add", p, <<>>, r.ok)
        /\ UNCHANGED direct

Remove(p) ==
    \E r \in {_remove(disk[p])} :
        /\ disk' = [disk EXCEPT ![p] = r.node]
        /\ lastw' = IF r.ok THEN [lastw EXCEPT ![p] = EmptyRefs] ELSE lastw
        /\ adds' = IF r.ok THEN [adds EXCEPT ![p] = 0] ELSE adds
        /\ first' = IF r.ok THEN [first EXCEPT ![p] = NoData] ELSE first
        /\ direct' = IF r.ok THEN [direct EXCEPT ![p] = FALSE] ELSE direct
        /\ last' = Call("remove", p, <<>>, r.ok)

\* flag tells that the call before was submit, publish or accept on the post
Status(p) ==
    /\ last' = [Call("status", p, <<>>, TRUE) EXCEPT
                   !.data = <<_kp_status(disk[p])>>,
                   !.flag = last.post = p /\ last.op \in {"submit", "publish", "accept"}]
    /\ UNCHANGED <<disk, lastw, adds, first, direct>>

\* _submit, _publish and _accept are 'pass'; _unpublish raises
Submit(p) ==
    /\ last' = Call("submit", p, <<>>, TRUE)
    /\ UNCHANGED <<disk, lastw, adds, first, direct>>

Publish(p) ==
    /\ last' = Call("publish", p, <<>>, TRUE)
    /\ UNCHANGED <<disk, lastw, adds, first, direct>>

Accept(p) ==
    /\ last' = Call("accept", p, <<>>, TRUE)
    /\ UNCHANGED <<disk, lastw, adds, first, direct>>

Unpublish_pass(p) ==
    /\ last' = Call("unpublish", p, <<>>, TRUE)
    /\ UNCHANGED <<disk, lastw, adds, first, direct>>
Unpublish(p) ==
    /\ last' = Call("unpublish", p, <<>>, FALSE)
    /\ UNCHANGED <<disk, lastw, adds, first, direct>>

\* the queries called with a revision selector that names an earlier revision
\* of the post (revision 1 of a post that is at a later one); _kp_read_ref,
\* _kp_has_ref and _kp_dir do not look at it
ReadAt(p, n, revision) ==
    /\ revision < _kp_get_revision(disk[p])
    /\ \E r \in {_kp_read_ref(disk[p], n)} :
          last' = [Call("read", p, n, r.ok) EXCEPT !.data = r.data,
                                                  !.revision = revision]
    /\ UNCHANGED <<disk, lastw, adds, first, direct>>

ExistsAt(p, n, revision) ==
    /\ revision < _kp_get_revision(disk[p])
    /\ \E r \in {_kp_has_ref(disk[p], n)} :
          last' = [Call("exists", p, n, r.ok) EXCEPT !.flag = r.val,
                                                    !.revision = revision]
    /\ UNCHANGED <<disk, lastw, adds, first, direct>>

ListAt(p, parent, revision) ==
    /\ revision < _kp_get_revision(disk[p])
    /\ \E r \in {_kp_dir(disk[p], parent)} :
          last' = [Call("list", p, parent, r.ok) EXCEPT !.names = r.names,
                                                       !.revision = revision]
    /\ UNCHANGED <<disk, lastw, adds, first, direct>>


(***************************************************************************)
(* Properties of the reference store                                       *)
(***************************************************************************)
\* C1: a successful write(path, name, bytes) followed by read(path, name),
\* with no later write to that name, returns exactly bytes, whether the post
\* is a packed archive or an expanded directory.
C1_WriteReadRoundTrip ==
    \A p \in Posts :
        /\ \A n \in DOMAIN lastw[p] : _kp_read_ref(disk[p], n) = Data(lastw[p][n])
        /\ (last.op = "read" /\ last.post = p /\ last.name \in DOMAIN lastw[p])
              => (last.ok /\ last.data = lastw[p][last.name])

C1_Witness ==
    /\ last.op = "read" /\ last.pre = "dir" /\ last.ok
    /\ Len(last.name) = 2
    /\ last.name \in DOMAIN lastw[last.post]

\* C2: for a post that started with no stored REVISION and whose reserved
\* references were written only by add, the revision read back equals the
\* number of successful add calls, and from the first add on the stored UUID
\* is the one the first add stored.
C2_RevisionCountsAdds ==
    \A p \in Posts :
        ~direct[p] =>
            /\ _kp_get_revision(disk[p]) = adds[p]
            /\ adds[p] > 0 => (first[p] \in Uuids /\ _kp_uuid(disk[p]) = first[p])

C2_Witness ==
    /\ last.op = "add" /\ last.ok
    /\ ~direct[last.post]
    /\ adds[last.post] = 2
    /\ _kp_get_revision(disk[last.post]) = 2

\* C3: once a post has been added, status(path) is PUBLISHED, and it stays
\* PUBLISHED after later add, submit, publish and accept calls.
C3_AddedIsPublished ==
    \A p \in Posts :
        adds[p] > 0 =>
            /\ _kp_status(disk[p]) = "PUBLISHED"
            /\ (last.op = "status" /\ last.post = p) => last.data = <<"PUBLISHED">>

C3_Witness ==
    /\ last.op = "status"
    /\ adds[last.post] > 0
    /\ last.flag

\* C4: after remove(path) on an existing post, packed or expanded, nothing
\* is left at the post path and exists(path, r) returns false for every
\* reference name r.
C4_RemoveDeletesAll ==
    (last.op = "remove" /\ last.pre # "none") =>
        /\ ~exists(disk[last.post])
        /\ \A r \in Names : _kp_has_ref(disk[last.post], r) = [ok |-> TRUE, val |-> FALSE]

\* C5: exists(path, name) on a post path at which nothing exists returns
\* false and does not raise.
C5_ExistsIsTotal ==
    (last.op = "exists" /\ last.pre = "none") => (last.ok /\ ~last.flag)

\* C6: list(path) of a post that has had at least one bump_revision yields
\* neither REVISION nor UUID, in either physical form.
C6_ListHidesReserved ==
    (last.op = "list" /\ adds[last.post] > 0) =>
        (last.ok /\ last.names \cap Reserved = {})

\* C7: a packed post and an expanded post that hold the same references
\* give the same result, value or error, for read, exists, list (with and
\* without a parent), write and bump_revision, and hold the same references
\* again after a write or a bump.
SameOutcome(a, b) == a.ok = b.ok /\ a.node.refs = b.node.refs
C7_RepresentationIndependence ==
    \A p \in Posts :
        isdir(disk[p]) =>
            LET e == disk[p]
                k == Packed(disk[p].refs)
            IN  /\ \A n \in Names : _kp_read_ref(e, n) = _kp_read_ref(k, n)
                /\ \A n \in Names : _kp_has_ref(e, n) = _kp_has_ref(k, n)
                /\ \A parent \in Parents : _kp_dir(e, parent) = _kp_dir(k, parent)
                /\ \A n \in Names, d \in ContentData :
                      SameOutcome(_kp_write_ref(e, n, d), _kp_write_ref(k, n, d))
                /\ \A u \in Uuids \cup {NoData} :
                      SameOutcome(_kp_new_revision(e, u), _kp_new_revision(k, u))

\* C14 (as stated): in the folder backend each of submit, unpublish and accept
\* fails with a not-supported error.
C14_LifecycleUnsupported ==
    last.op \in {"submit", "unpublish", "accept"} => ~last.ok

\* C14 (amended): in the folder backend unpublish fails with a not-supported
\* error, submit and accept succeed without doing anything, and all three
\* leave the stored references of every post unchanged.
C14_OnlyUnpublishUnsupported ==
    [][/\ last'.op = "unpublish" => ~last'.ok /\ disk' = disk
       /\ last'.op \in {"submit", "accept"} => last'.ok /\ disk' = disk]_storeVars
C14_Witness ==
    /\ last.op = "unpublish" /\ ~last.ok
    /\ exists(disk[last.post]) /\ adds[last.post] > 0

\* C15: in the folder backend read, list and exists called with a revision
\* selector that names a historical revision fail with a not-supported error
\* instead of answering from the latest state.
C15_HistoricalRevisionRefused ==
    last.revision # 0 => ~last.ok

\* C24: after write(path, name, bytes) succeeds, exists(path, name) is true
\* and list(path) yields name (for a non-reserved name), in both physical
\* forms and also when the post path did not exist before the write.
C24_WrittenIsListed ==
    (last.op = "write" /\ last.ok) =>
        LET node == disk[last.post] IN
        /\ _kp_has_ref(node, last.name).ok /\ _kp_has_ref(node, last.name).val
        /\ last.name \notin Reserved =>
              /\ _kp_dir(node, <<>>).ok
              /\ last.name \in _kp_dir(node, <<>>).names
C24_Witness ==
    /\ last.op = "write" /\ last.ok /\ last.pre = "none"
    /\ last.name = <<"d", "b">> /\ isdir(disk[last.post])


(***************************************************************************)
(* utils/git.py: the hook-aware commit                                     *)
(***************************************************************************)
HookNames == {"pre-commit", "commit-msg", "post-commit"}
\* what is at the hook path: no executable file, a hook that exits 0, one
\* that exits non-zero, one that cannot be started, and (commit-msg only) a
\* hook that exits 0 after rewriting the message file it was given
HookKinds == {"none", "pass", "fail", "spawn", "rewrite"}
HookSetups == {h \in [HookNames -> HookKinds] :
                 h["pre-commit"] # "rewrite" /\ h["post-commit"] # "rewrite"}

Messages == {"m1", "m2"}
Rewrite(m) == IF m = "m1" THEN "r1" ELSE "r2"

\* variant: a non-zero exit status of the hook process is not looked at
run_commit_hook_lenient(kind) ==
    IF kind = "none" THEN "skipped"
    ELSE IF kind = "spawn" THEN "HookExecutionError"
    ELSE "ran"

\* run_commit_hook: returns None when the hook is not executable, raises
\* HookExecutionError when it cannot be started or exits non-zero
run_commit_hook(kind) ==
    IF kind = "none" THEN "skipped"
    ELSE IF kind = "spawn" THEN "HookExecutionError"
    ELSE IF kind = "fail" THEN "HookExecutionError"
    ELSE "ran"

VARIABLES
    hooks,     \* the hook files of the git repository
    gpc,       \* position of the running commit call
    calls,     \* number of commit calls made
    message,   \* commit's local variable 'message'
    skip_hooks,\* commit's argument skip_hooks
    head_arg,  \* commit's argument head
    editmsg,   \* the scratch file COMMIT_EDITMSG
    trees,     \* number of tree objects in the object database
    commits,   \* the commit objects, by their messages
    HEAD,      \* the commit HEAD points to (0: none)
    at_call,   \* trees, commits and HEAD when the running call began
    rval,      \* the commit object the call holds (0: none)
    failed,    \* the hook whose HookExecutionError ended the call
    events     \* what the running call has done so far

gitVars == <<hooks, gpc, calls, message, skip_hooks, head_arg, editmsg, trees,
             commits, HEAD, at_call, rval, failed, events>>

NoFile == [exists |-> FALSE, text |-> ""]

GitInit ==
    /\ hooks \in HookSetups
    /\ gpc = "idle"
    /\ calls = 0
    /\ message = ""
    /\ skip_hooks = FALSE
    /\ head_arg = TRUE
    /\ editmsg = NoFile
    /\ trees = 0
    /\ commits = <<>>
    /\ HEAD = 0
    /\ at_call = [trees |-> 0, commits |-> 0, HEAD |-> 0, message |-> ""]
    /\ rval = 0
    /\ failed = ""
    /\ events = <<>>

Finished == gpc \in {"returned", "raised"}

CommitCall(m, skip, hd) ==
    /\ gpc = "idle" \/ Finished
    /\ calls < MaxCalls
    /\ calls' = calls + 1
    /\ message' = m
    /\ skip_hooks' = skip
    /\ head_arg' = hd
    /\ at_call' = [trees |-> trees, commits |-> Len(commits), HEAD |-> HEAD,
                   message |-> m]
    /\ rval' = 0
    /\ failed' = ""
    /\ events' = <<>>
    /\ gpc' = IF skip THEN "write_tree" ELSE "pre_commit"
    /\ UNCHANGED <<hooks, editmsg, trees, commits, HEAD>>

\* run_commit_hook("pre-commit", self)
PreCommit ==
    /\ gpc = "pre_commit"
    /\ LET r == run_commit_hook(hooks["pre-commit"])
       IN  /\ events' = IF r = "skipped" THEN events ELSE Append(events, "pre-commit")
           /\ gpc' = IF r = "HookExecutionError" THEN "raised" ELSE "write_editmsg"
           /\ failed' = IF r = "HookExecutionError" THEN "pre-commit" ELSE failed
    /\ UNCHANGED <<hooks, calls, message, skip_hooks, head_arg, editmsg, trees,
                   commits, HEAD, at_call, rval>>

\* self._write_commit_editmsg(message)
WriteEditmsg ==
    /\ gpc = "write_editmsg"
    /\ editmsg' = [exists |-> TRUE, text |-> message]
    /\ gpc' = "commit_msg"
    /\ UNCHANGED <<hooks, calls, message, skip_hooks, head_arg, trees, commits,
                   HEAD, at_call, rval, failed, events>>

\* run_commit_hook("commit-msg", self, self._commit_editmsg_filepath())
CommitMsg ==
    /\ gpc = "commit_msg"
    /\ LET r == run_commit_hook(hooks["commit-msg"])
       IN  /\ events' = IF r = "skipped" THEN events ELSE Append(events, "commit-msg")
           /\ gpc' = IF r = "HookExecutionError" THEN "raised" ELSE "read_editmsg"
           /\ failed' = IF r = "HookExecutionError" THEN "commit-msg" ELSE failed
           /\ editmsg' = IF hooks["commit-msg"] = "rewrite"
                         THEN [editmsg EXCEPT !.text = Rewrite(@)] ELSE editmsg
    /\ UNCHANGED <<hooks, calls, message, skip_hooks, head_arg, trees, commits,
                   HEAD, at_call, rval>>

\* variant: the scratch file is not read back
ReadEditmsg_keep ==
    /\ gpc = "read_editmsg"
    /\ message' = message
    /\ gpc' = "remove_editmsg"
    /\ UNCHANGED <<hooks, calls, skip_hooks, head_arg, editmsg, trees, commits,
                   HEAD, at_call, rval, failed, events>>

\* message = self._read_commit_editmsg()
ReadEditmsg ==
    /\ gpc = "read_editmsg"
    /\ message' = editmsg.text
    /\ gpc' = "remove_editmsg"
    /\ UNCHANGED <<hooks, calls, skip_hooks, head_arg, editmsg, trees, commits,
                   HEAD, at_call, rval, failed, events>>

\* self._remove_commit_editmsg()
RemoveEditmsg ==
    /\ gpc = "remove_editmsg"
    /\ editmsg' = NoFile
    /\ gpc' = "write_tree"
    /\ UNCHANGED <<hooks, calls, message, skip_hooks, head_arg, trees, commits,
                   HEAD, at_call, rval, failed, events>>

\* tree = self.write_tree()
WriteTree ==
    /\ gpc = "write_tree"
    /\ trees' = trees + 1
    /\ events' = Append(events, "tree")
    /\ gpc' = "create_from_tree"
    /\ UNCHANGED <<hooks, calls, message, skip_hooks, head_arg, editmsg, commits,
                   HEAD, at_call, rval, failed>>

\* variant: the post-commit hook is run whatever skip_hooks says
CreateFromTree_hooked ==
    /\ gpc = "create_from_tree"
    /\ commits' = Append(commits, message)
    /\ HEAD' = IF head_arg THEN Len(commits) + 1 ELSE HEAD
    /\ rval' = Len(commits) + 1
    /\ events' = Append(events, "commit")
    /\ gpc' = "post_commit"
    /\ UNCHANGED <<hooks, calls, message, skip_hooks, head_arg, editmsg, trees,
                   at_call, failed>>

\* rval = Commit.create_from_tree(self.repo, tree, message, parent_commits, head, ...)
CreateFromTree ==
    /\ gpc = "create_from_tree"
    /\ commits' = Append(commits, message)
    /\ HEAD' = IF head_arg THEN Len(commits) + 1 ELSE HEAD
    /\ rval' = Len(commits) + 1
    /\ events' = Append(events, "commit")
    /\ gpc' = IF skip_hooks THEN "returned" ELSE "post_commit"
    /\ UNCHANGED <<hooks, calls, message, skip_hooks, head_arg, editmsg, trees,
                   at_call, failed>>

\* run_commit_hook("post-commit", self); return rval
PostCommit ==
    /\ gpc = "post_commit"
    /\ LET r == run_commit_hook(hooks["post-commit"])
       IN  /\ events' = IF r = "skipped" THEN events ELSE Append(events, "post-commit")
           /\ gpc' = IF r = "HookExecutionError" THEN "raised" ELSE "returned"
           /\ failed' = IF r = "HookExecutionError" THEN "post-commit" ELSE failed
    /\ UNCHANGED <<hooks, calls, message, skip_hooks, head_arg, editmsg, trees,
                   commits, HEAD, at_call, rval>>

(***************************************************************************)
(* Properties of the commit path                                           *)
(***************************************************************************)
\* C8: a commit call (hooks not skipped) whose pre-commit or commit-msg hook
\* is executable and exits non-zero ends with HookExecutionError, and it
\* creates no tree and no commit object: the object counts and HEAD are the
\* ones of the moment of the call.
C8_FailedHookAbortsCommit ==
    /\ (~skip_hooks /\ gpc \notin {"idle", "pre_commit"} /\ hooks["pre-commit"] = "fail")
          => (gpc = "raised" /\ failed = "pre-commit")
    /\ (~skip_hooks /\ gpc \notin {"idle", "pre_commit", "write_editmsg", "commit_msg"}
          /\ hooks["commit-msg"] = "fail")
          => (gpc = "raised" /\ failed \in {"pre-commit", "commit-msg"})
    /\ (gpc = "raised" /\ failed \in {"pre-commit", "commit-msg"})
          => /\ trees = at_call.trees
             /\ Len(commits) = at_call.commits
             /\ HEAD = at_call.HEAD

C8_Witness ==
    /\ gpc = "raised" /\ failed = "commit-msg"
    /\ hooks["commit-msg"] = "fail"
    /\ Len(commits) = 1

\* C9: a commit call whose post-commit hook exits non-zero still returns the
\* commit object it created and raises no error.
C9_PostCommitNotFatal ==
    (Finished /\ ~skip_hooks /\ hooks["post-commit"] = "fail"
        /\ Len(commits) > at_call.commits)
        => (gpc = "returned" /\ rval = Len(commits))

\* the order the claim gives to the events of one commit call
EventOrder == <<"pre-commit", "commit-msg", "tree", "commit", "post-commit">>
Pos(e) == CHOOSE i \in 1..Len(EventOrder) : EventOrder[i] = e

\* C19: in a commit call with skip_hooks false the events happen in the order
\* pre-commit hook, commit-msg hook, tree write, commit object creation,
\* post-commit hook (all five when every hook is executable and passes); the
\* post-commit hook runs only after the commit object was created; with
\* skip_hooks true no hook runs.
C19_CommitEventOrder ==
    /\ \A i, j \in 1..Len(events) : i < j => Pos(events[i]) < Pos(events[j])
    /\ (\E i \in 1..Len(events) : events[i] = "post-commit")
          => (\E i \in 1..Len(events) : events[i] = "commit")
             /\ Len(commits) > at_call.commits
    /\ skip_hooks => \A i \in 1..Len(events) : events[i] \in {"tree", "commit"}
    /\ (gpc = "returned" /\ ~skip_hooks
           /\ \A h \in HookNames : hooks[h] \in {"pass", "rewrite"})
          => events = EventOrder
C19_Witness ==
    /\ gpc = "returned" /\ ~skip_hooks /\ events = EventOrder /\ calls = 2

\* C20: the commit object is created with the message the hooks left: the
\* rewritten content of the scratch file when the commit-msg hook rewrites
\* it, and the message the caller passed when no executable commit-msg hook
\* exists (or hooks are skipped).
C20_HookFilteredMessage ==
    rval # 0 =>
        commits[rval] = IF ~skip_hooks /\ hooks["commit-msg"] = "rewrite"
                        THEN Rewrite(at_call.message)
                        ELSE at_call.message
C20_Witness ==
    /\ rval # 0 /\ ~skip_hooks /\ hooks["commit-msg"] = "rewrite"
    /\ at_call.message = "m2" /\ commits[rval] = "r2"

\* C21: the scratch commit-message file written for the commit-msg hook is
\* deleted by the time commit finishes, whether it returns normally or the
\* commit-msg hook fails.
C21_ScratchFileDeleted ==
    Finished => ~editmsg.exists

(***************************************************************************)
(* utils/git.py and scripts/kr.py: re-execution under a pinned tooling     *)
(* revision, with clone_kr_to_directory and CheckedOutRevision             *)
(***************************************************************************)
VARIABLES
    tpc,       \* position of the running handle_basic_args
    runs,      \* number of runs started
    allow_exit,\* handle_basic_args's argument allow_exit
    krdir,     \* ~/.knowledge_repo/git: "absent", "plain" directory or "clone"
    tmp,       \* the temporary directories that exist
    made,      \* number of tempfile.mkdtemp calls so far
    cor_dir,   \* CheckedOutRevision.dir of the running run (0: not set)
    pending,   \* the exception travelling out of the with-body
    outcome,   \* how the run ended
    kr         \* the last clone_kr_to_directory: what it found and did

toolVars == <<tpc, runs, allow_exit, krdir, tmp, made, cor_dir, pending, outcome, kr>>

ToolInit ==
    /\ tpc = "idle"
    /\ runs = 0
    /\ allow_exit = FALSE
    /\ krdir \in {"absent", "plain", "clone"}
    /\ tmp = {}
    /\ made = 0
    /\ cor_dir = 0
    /\ pending = "none"
    /\ outcome = "none"
    /\ kr = [was |-> "absent", did |-> "none", ok |-> TRUE]

\* handle_basic_args reaches the '!' branch
StartRun(ae) ==
    /\ tpc \in {"idle", "done"}
    /\ runs < MaxRuns
    /\ runs' = runs + 1
    /\ allow_exit' = ae
    /\ cor_dir' = 0
    /\ pending' = "none"
    /\ outcome' = "none"
    /\ tpc' = "clone"
    /\ UNCHANGED <<krdir, tmp, made, kr>>

\* clone_kr_to_directory: makes the directory, fetches when it is a git
\* repository and clones when it is not; a failing fetch or clone raises
\* variant: clones whatever the directory holds
CloneKr_reclone(net_ok) ==
    /\ tpc = "clone"
    /\ krdir' = IF krdir = "clone" THEN "clone"
                ELSE IF net_ok THEN "clone" ELSE "plain"
    /\ kr' = [was |-> krdir, did |-> "clone", ok |-> net_ok]
    /\ tpc' = IF net_ok THEN "enter" ELSE "done"
    /\ outcome' = IF net_ok THEN outcome ELSE "error"
    /\ UNCHANGED <<runs, allow_exit, tmp, made, cor_dir, pending>>

CloneKr(net_ok) ==
    /\ tpc = "clone"
    /\ krdir' = IF krdir = "clone" THEN "clone"
                ELSE IF net_ok THEN "clone" ELSE "plain"
    /\ kr' = [was |-> krdir, ok |-> net_ok,
              did |-> IF krdir = "clone" THEN "fetch" ELSE "clone"]
    /\ tpc' = IF net_ok THEN "enter" ELSE "done"
    /\ outcome' = IF net_ok THEN outcome ELSE "error"
    /\ UNCHANGED <<runs, allow_exit, tmp, made, cor_dir, pending>>

\* CheckedOutRevision.__enter__: self.dir = tempfile.mkdtemp()
EnterMkdtemp ==
    /\ tpc = "enter"
    /\ made' = made + 1
    /\ tmp' = tmp \cup {made + 1}
    /\ cor_dir' = made + 1
    /\ tpc' = "checkout"
    /\ UNCHANGED <<runs, allow_exit, krdir, pending, outcome, kr>>

\* CheckedOutRevision.__enter__: checkout_revision_to_dir(...); an exception
\* of fetch, checkout or checkout_index leaves __enter__, and the with
\* statement then does not call __exit__
EnterCheckout(ok) ==
    /\ tpc = "checkout"
    /\ tpc' = IF ok THEN "body" ELSE "done"
    /\ outcome' = IF ok THEN outcome ELSE "error"
    /\ UNCHANGED <<runs, allow_exit, krdir, tmp, made, cor_dir, pending, kr>>

\* the with-body: kr.py calls the pinned script and leaves with
\* sys.exit(rc) or SystemExit, or with the exception of subprocess.call;
\* a body of another caller may also end normally
BodyOutcomes == {"normal", "exception", "SystemExit", "exit_rc"}
WithBody(out) ==
    /\ tpc = "body"
    /\ out = "exit_rc" => allow_exit
    /\ pending' = out
    /\ tpc' = "exit"
    /\ UNCHANGED <<runs, allow_exit, krdir, tmp, made, cor_dir, outcome, kr>>

\* CheckedOutRevision.__exit__: shutil.rmtree(self.dir); returns None, so
\* the exception of the body goes on
Exit ==
    /\ tpc = "exit"
    /\ tmp' = tmp \ {cor_dir}
    /\ outcome' = pending
    /\ tpc' = "done"
    /\ UNCHANGED <<runs, allow_exit, krdir, made, cor_dir, pending, kr>>

\* C10: when the with statement of CheckedOutRevision has been left, on any
\* path (normal end, exception or SystemExit in the body, failure of the
\* checkout in __enter__), the temporary directory it created is deleted.
C10_TempDirAlwaysDeleted ==
    (tpc = "done" /\ cor_dir # 0) => cor_dir \notin tmp

\* C18: clone_kr_to_directory(dir) ends with a clone of the tooling
\* repository at dir: when dir is absent or is not a git repository it clones
\* into dir, and when dir is a git repository already it fetches and does not
\* clone again.
C18_CloneOrFetch ==
    kr.did # "none" =>
        /\ kr.was \in {"absent", "plain"} => kr.did = "clone"
        /\ kr.was = "clone" => kr.did = "fetch"
        /\ kr.ok => krdir = "clone"
C18_Witness ==
    /\ kr.was = "clone" /\ kr.did = "fetch" /\ kr.ok /\ krdir = "clone" /\ runs = 2

(***************************************************************************)
(* Opening and creating a folder repository (repositories/folder.py)      *)
(***************************************************************************)
\* segments of the locators tried; "my%20repo" is the quoted form of "my repo"
UriPaths == {<<"srv", "repo">>, <<"srv", "my%20repo">>}
\* a locator: `file` says whether its text starts with "file://"; a bare path
\* has no authority part
Uris == {u \in [file : BOOLEAN, netloc : {"", "host"}, path : UriPaths] :
            ~u.file => u.netloc = ""}
\* the directories of the file system the locators can name
Locs == {<<"srv", "repo">>, <<"srv", "my repo">>, <<"srv", "my%20repo">>}

TEMPLATES == {"README.md", ".knowledge_repo_config.yml"}
\* the content of a file of a repository directory is "none" (no file), "user"
\* (written by the user) or the name of the template it is a copy of

NoDir == [kind |-> "absent", git |-> FALSE, files |-> [t \in TEMPLATES |-> "none"]]
EmptyDir == [kind |-> "dir", git |-> FALSE, files |-> [t \in TEMPLATES |-> "none"]]
path_exists(fs, path) == fs[path].kind # "absent"
target_exists(fs, path, filename) ==
    path_exists(fs, path) /\ fs[path].files[filename] # "none"
git_exists(fs, path) == path \in DOMAIN fs /\ path_exists(fs, path) /\ fs[path].git
os_makedirs(fs, path) == [fs EXCEPT ![path] = EmptyDir]
shutil_copy(fs, path, filename) == [fs EXCEPT ![path].files[filename] = filename]

url2pathname(path) ==
    [i \in DOMAIN path |-> IF path[i] = "my%20repo" THEN "my repo" ELSE path[i]]
\* the unquoted path is absolute, so joining it to "//netloc/" drops the netloc
uri_to_path(uri) == url2pathname(uri.path)

RECURSIVE copy_templates(_, _, _)
copy_templates(fs, path, todo) ==
    IF todo = {} THEN fs
    ELSE LET filename == CHOOSE t \in todo : TRUE
             fs1 == IF ~target_exists(fs, path, filename)
                    THEN shutil_copy(fs, path, filename)
                    ELSE fs
         IN copy_templates(fs1, path, todo \ {filename})

\* create, from the point where the locator is a path
create_overwrite(fs, path) ==
    LET fs1 == IF ~path_exists(fs, path) THEN os_makedirs(fs, path) ELSE fs
    IN [ok |-> TRUE, path |-> path,
        fs |-> [fs1 EXCEPT ![path].files = [t \in TEMPLATES |-> t]]]
create_path(fs, path) ==
    LET fs1 == IF ~path_exists(fs, path) THEN os_makedirs(fs, path) ELSE fs
    IN [ok |-> TRUE, fs |-> copy_templates(fs1, path, TEMPLATES), path |-> path]

create(fs, uri) ==
    create_path(fs, IF uri.file THEN uri_to_path(uri) ELSE uri.path)

\* the path setter run by init
set_path_create(fs, path, auto_create) == create_path(fs, path)
set_path(fs, path, auto_create) ==
    IF ~path_exists(fs, path)
    THEN IF auto_create THEN create_path(fs, path)
         ELSE [ok |-> FALSE, fs |-> fs, path |-> path]
    ELSE [ok |-> TRUE, fs |-> fs, path |-> path]

from_uri_any(fs, uri, auto_create) ==
    LET p == IF uri.file THEN uri_to_path(uri) ELSE uri.path
    IN IF git_exists(fs, p)
       THEN [ok |-> TRUE, fs |-> fs, path |-> p, backend |-> "git"]
       ELSE LET r == set_path(fs, p, auto_create)
            IN [ok |-> r.ok, fs |-> r.fs, path |-> p, backend |-> "folder"]
from_uri(fs, uri, auto_create) ==
    LET check_for_git == ~uri.file
        p == IF uri.file THEN uri_to_path(uri) ELSE uri.path
    IN IF check_for_git /\ git_exists(fs, p)
       THEN [ok |-> TRUE, fs |-> fs, path |-> p, backend |-> "git"]
       ELSE LET r == set_path(fs, p, auto_create)
            IN [ok |-> r.ok, fs |-> r.fs, path |-> p, backend |-> "folder"]

VARIABLES fs, opened
openVars == <<fs, opened>>

NoOpen == [op |-> "none", uri |-> [file |-> FALSE, netloc |-> "", path |-> <<"srv", "repo">>],
           auto |-> FALSE, ok |-> TRUE, backend |-> "none", path |-> <<"srv", "repo">>,
           was |-> TRUE]

\* directories as they can be found before a call: absent, empty, a git
\* checkout, or holding a README of the user's
OpenInit ==
    /\ fs \in [Locs -> {NoDir, EmptyDir, [EmptyDir EXCEPT !.git = TRUE],
                        [EmptyDir EXCEPT !.files["README.md"] = "user"]}]
    /\ opened = NoOpen

Create(uri) ==
    \E r \in {create(fs, uri)} :
        /\ fs' = r.fs
        /\ opened' = [op |-> "create", uri |-> uri, auto |-> FALSE, ok |-> r.ok,
                      backend |-> "folder", path |-> r.path,
                      was |-> path_exists(fs, r.path)]

FromUri(uri, auto_create) ==
    \E r \in {from_uri(fs, uri, auto_create)} :
        /\ fs' = r.fs
        /\ opened' = [op |-> "open", uri |-> uri, auto |-> auto_create, ok |-> r.ok,
                      backend |-> r.backend, path |-> r.path,
                      was |-> path_exists(fs, r.path)]

\* the user edits a file of an existing repository directory
UserWrite(path, filename) ==
    /\ path_exists(fs, path)
    /\ fs' = [fs EXCEPT ![path].files[filename] = "user"]
    /\ opened' = [NoOpen EXCEPT !.op = "edit", !.path = path]

\* the path a locator stands for: a file:// locator is decoded, a bare path
\* is taken as it is written
DecodedPath(uri) == IF uri.file THEN url2pathname(uri.path) ELSE uri.path

\* C11: from_uri selects the git backend exactly when the locator does not
\* start with file:// and a .git entry exists at the path it stands for; in
\* every other case (file:// locators of git checkouts included) it selects
\* the folder backend.
C11_BackendResolution ==
    [][opened'.op = "open" =>
         (opened'.backend = "git") =
            (~opened'.uri.file /\ git_exists(fs, DecodedPath(opened'.uri)))
         /\ opened'.backend \in {"git", "folder"}]_openVars
C11_Witness ==
    /\ opened.op = "open" /\ opened.uri.file /\ opened.backend = "folder"
    /\ fs[opened.path].git /\ opened.path = <<"srv", "my repo">>

\* C12: create makes the directory when it is absent and copies each template
\* only where no file of that name exists; a file already there keeps its
\* content and create succeeds, so a second create changes nothing.
C12_CreateKeepsExistingFiles ==
    [][opened'.op = "create" =>
         LET p == opened'.path IN
         /\ opened'.ok
         /\ fs'[p].kind = "dir"
         /\ \A t \in TEMPLATES :
               fs'[p].files[t] = IF target_exists(fs, p, t) THEN fs[p].files[t] ELSE t
         /\ \A q \in Locs \ {p} : fs'[q] = fs[q]
         /\ create(fs', opened'.uri).fs = fs']_openVars
C12_Witness ==
    /\ opened.op = "create" /\ opened.ok /\ opened.was
    /\ fs[opened.path].files["README.md"] = "user"
    /\ fs[opened.path].files[".knowledge_repo_config.yml"] = ".knowledge_repo_config.yml"

\* C13: opening a folder repository on a path that does not exist fails and
\* creates nothing when auto_create is off; when auto_create is on the
\* directory and the template files are created and the open succeeds.
C13_AutoCreate ==
    [][(opened'.op = "open" /\ opened'.backend = "folder"
            /\ ~path_exists(fs, opened'.path)) =>
         IF opened'.auto
         THEN /\ opened'.ok
              /\ fs'[opened'.path].kind = "dir"
              /\ \A t \in TEMPLATES : fs'[opened'.path].files[t] = t
         ELSE ~opened'.ok /\ fs' = fs]_openVars
C13_Witness ==
    /\ opened.op = "open" /\ opened.auto /\ ~opened.was
    /\ opened.ok /\ opened.backend = "folder"
    /\ \A t \in TEMPLATES : fs[opened.path].files[t] = t

(***************************************************************************)
(* Rewriting a packed post step by step: _kp_write_ref on an archive       *)
(* loads it, writes the reference in memory and saves it with to_file.     *)
(* The writer can die between any two steps; a reader can open the archive *)
(* at any time.                                                            *)
(***************************************************************************)
\* a file whose bytes are only partly written
Torn == [kind |-> "torn", refs |-> EmptyRefs, dirs |-> {}]
\* to_file writes the new archive beside the destination and renames it
\* variant: to_file writes straight into the destination
to_file_inplace(dest) == dest
to_file_temp(dest) == IF dest = "archive" THEN "temp" ELSE dest

VARIABLES files, wpc, mem, old, new, seen
archiveVars == <<files, wpc, mem, old, new, seen>>

ArchiveInit ==
    /\ \E refs \in {EmptyRefs, [n \in {<<"d">>} |-> <<"x">>]} :
          /\ files = [f \in {"archive", "temp"} |->
                        IF f = "archive" THEN Packed(refs) ELSE Absent]
          /\ old = Packed(refs)
          /\ new = Packed(refs)
          /\ seen = Packed(refs)
    /\ wpc = "idle"
    /\ mem = EmptyRefs

\* _kp_write_ref(path, reference, data) on a packed post: from_file and the
\* in-memory _write_ref
LoadAndWrite(reference, data) ==
    /\ wpc = "idle"
    /\ isfile(files["archive"])
    /\ \E kp \in {KP_from_file(files["archive"])} :
          /\ mem' = KP_write_ref(kp.refs, reference, data)
          /\ old' = files["archive"]
          /\ new' = KP_to_file(KP_write_ref(kp.refs, reference, data))
    /\ wpc' = "to_file"
    /\ UNCHANGED <<files, seen>>

\* to_file(path): the new archive file is created empty
ToFileCreate ==
    /\ wpc = "to_file"
    /\ files' = [files EXCEPT ![to_file_temp("archive")] = Torn]
    /\ wpc' = "writing"
    /\ UNCHANGED <<mem, old, new, seen>>

\* all members are written and the file is closed
ToFileWrite ==
    /\ wpc = "writing"
    /\ files' = [files EXCEPT ![to_file_temp("archive")] = KP_to_file(mem)]
    /\ wpc' = "rename"
    /\ UNCHANGED <<mem, old, new, seen>>

\* the finished file takes the archive's name
ToFileRename ==
    /\ wpc = "rename"
    /\ files' = IF to_file_temp("archive") = "archive" THEN files
                ELSE [f \in {"archive", "temp"} |->
                        IF f = "archive" THEN files["temp"] ELSE Absent]
    /\ wpc' = "idle"
    /\ UNCHANGED <<mem, old, new, seen>>

\* the writing process dies; what it left on disk stays
WriterDies ==
    /\ wpc # "idle"
    /\ wpc' = "idle"
    /\ UNCHANGED <<files, mem, old, new, seen>>

\* another process opens the archive
ReaderOpens ==
    /\ seen' = files["archive"]
    /\ UNCHANGED <<files, wpc, mem, old, new>>

Bumpers == 1..MaxBumpers

VARIABLES bnode, base, bpc, got, buuid, stored, order, serial
bumpVars == <<bnode, base, bpc, got, buuid, stored, order, serial>>

BumpInit ==
    /\ bnode \in {Packed(EmptyRefs), Packed([n \in {REVISION} |-> <<"9">>]),
                  Expanded(EmptyRefs, {}), Expanded([n \in {REVISION} |-> <<"9">>], {})}
    /\ base = _kp_get_revision(bnode)
    /\ bpc = [i \in Bumpers |-> "idle"]
    /\ got = [i \in Bumpers |-> 0]
    /\ buuid = [i \in Bumpers |-> NoData]
    /\ stored = [i \in Bumpers |-> 0]
    /\ order = <<>>
    /\ serial = TRUE

\* self._kp_get_revision(path), the argument of the first _kp_write_ref
BumpRead(i, uuid) ==
    /\ bpc[i] = "idle"
    /\ got' = [got EXCEPT ![i] = _kp_get_revision(bnode)]
    /\ buuid' = [buuid EXCEPT ![i] = uuid]
    /\ bpc' = [bpc EXCEPT ![i] = "write"]
    /\ serial' = (serial /\ \A j \in Bumpers : bpc[j] \in {"idle", "done"})
    /\ UNCHANGED <<bnode, base, stored, order>>

\* variant: the number read is written back as it is
BumpWrite_same(i) ==
    /\ bpc[i] = "write"
    /\ \E w \in {_kp_write_ref(bnode, REVISION, encodeInt(got[i]))} :
          /\ w.ok
          /\ bnode' = w.node
    /\ stored' = [stored EXCEPT ![i] = got[i]]
    /\ order' = Append(order, i)
    /\ bpc' = [bpc EXCEPT ![i] = IF buuid[i] # NoData THEN "uuid" ELSE "done"]
    /\ UNCHANGED <<base, got, buuid, serial>>

\* self._kp_write_ref(path, "REVISION", encode(<revision read> + 1))
BumpWrite(i) ==
    /\ bpc[i] = "write"
    /\ \E w \in {_kp_write_ref(bnode, REVISION, encodeInt(got[i] + 1))} :
          /\ w.ok
          /\ bnode' = w.node
    /\ stored' = [stored EXCEPT ![i] = got[i] + 1]
    /\ order' = Append(order, i)
    /\ bpc' = [bpc EXCEPT ![i] = IF buuid[i] # NoData THEN "uuid" ELSE "done"]
    /\ UNCHANGED <<base, got, buuid, serial>>

\* if uuid: self._kp_write_ref(path, "UUID", encode(uuid))
BumpUuid(i) ==
    /\ bpc[i] = "uuid"
    /\ \E w \in {_kp_write_ref(bnode, UUID, encodeBytes(buuid[i]))} :
          /\ w.ok
          /\ bnode' = w.node
    /\ bpc' = [bpc EXCEPT ![i] = "done"]
    /\ UNCHANGED <<base, got, buuid, stored, order, serial>>

\* C17 (as stated): after any interleaving of k bump_revision calls on a post
\* the stored REVISION is the initial value plus k, and no two calls store
\* the same number.
C17_AtomicIncrement ==
    (\A i \in Bumpers : bpc[i] = "done") =>
        /\ _kp_get_revision(bnode) = base + MaxBumpers
        /\ \A i, j \in Bumpers : i # j => stored[i] # stored[j]

\* C17 (amended): when the bump_revision calls on a post are kept apart (no
\* call starts while another is in progress), after k calls have written the
\* stored REVISION is the initial value plus k, and the j-th call to complete
\* its write stored the initial value plus j.
C17_SerialIncrement ==
    serial =>
        /\ _kp_get_revision(bnode) = base + Len(order)
        /\ \A j \in 1..Len(order) : stored[order[j]] = base + j
C17_Witness ==
    /\ serial /\ \A i \in Bumpers : bpc[i] = "done"
    /\ base = 9 /\ _kp_get_revision(bnode) = 9 + MaxBumpers
    /\ isfile(bnode)

(***************************************************************************)
(* Functions of utils/git.py, scripts/kr.py, repositories/folder.py and    *)
(* converters/html.py that are checked call by call: fcall is the last     *)
(* call and its arguments, fresult what it gave.                           *)
(***************************************************************************)
VARIABLES environ, fcall, fresult
fnVars == <<environ, fcall, fresult>>

\* os.environ: the variables that are set, with their values
EnvNames == {"PATH", "GIT_EDITOR", "GIT_INDEX_FILE"}
Environs == UNION {[names -> {"a", "vi"}] : names \in SUBSET EnvNames}
IndexPaths == {"index", "index.lock"}

\* variant: the editor of the caller's environment is kept
hook_env_editor(env, index_path) ==
    [v \in DOMAIN env \cup {"GIT_INDEX_FILE", "GIT_EDITOR"} |->
        IF v = "GIT_INDEX_FILE" THEN index_path
        ELSE IF v \in DOMAIN env THEN env[v] ELSE ":"]
\* env = os.environ.copy(); env["GIT_INDEX_FILE"] = ...; env["GIT_EDITOR"] = ":"
hook_env(env, index_path) ==
    [v \in DOMAIN env \cup {"GIT_INDEX_FILE", "GIT_EDITOR"} |->
        IF v = "GIT_INDEX_FILE" THEN index_path
        ELSE IF v = "GIT_EDITOR" THEN ":"
        ELSE env[v]]

FnInit ==
    /\ environ \in Environs
    /\ fcall = [fn |-> "none"]
    /\ fresult = <<>>

\* the caller goes on to its next call
FnReturn ==
    /\ fcall.fn # "none"
    /\ fcall' = [fn |-> "none"]
    /\ fresult' = <<>>
    /\ environ' = environ

\* run_commit_hook on an executable hook: the environment Popen is given
RunHookEnv(index_path) ==
    /\ fcall.fn = "none"
    /\ fcall' = [fn |-> "run_commit_hook", index_path |-> index_path]
    /\ fresult' = hook_env(environ, index_path)
    /\ environ' = environ

\* C22: a hook is started with the environment of the process plus exactly
\* two overrides, GIT_INDEX_FILE (the index file path) and GIT_EDITOR (":");
\* every other variable is passed as it is, and the environment of the
\* calling process is not changed by running the hook.
C22_HookEnvironment ==
    [][fcall'.fn = "run_commit_hook" =>
         /\ environ' = environ
         /\ DOMAIN fresult' = DOMAIN environ \cup {"GIT_INDEX_FILE", "GIT_EDITOR"}
         /\ fresult'["GIT_INDEX_FILE"] = fcall'.index_path
         /\ fresult'["GIT_EDITOR"] = ":"
         /\ \A v \in DOMAIN environ \ {"GIT_INDEX_FILE", "GIT_EDITOR"} :
               fresult'[v] = environ[v]]_fnVars
C22_Witness ==
    /\ fcall.fn = "run_commit_hook"
    /\ DOMAIN environ = EnvNames /\ environ["GIT_EDITOR"] = "vi"
    /\ fresult["GIT_EDITOR"] = ":" /\ fresult["PATH"] = environ["PATH"]

\* the answers of `where git`
GitPaths == {<<"C:", "Git", "cmd", "git.exe">>, <<"D:", "tools", "git", "bin", "git.exe">>}
\* Path.parent
path_parent(path) == SubSeq(path, 1, Len(path) - 1)
\* gitbash.exists is the bound method, not its result: it counts as true
\* whatever the file system holds
bash_path(is_win, where_ok, gitpath, bash_exists) ==
    IF ~is_win THEN <<"bash">>
    ELSE IF ~where_ok THEN <<"bash.exe">>
    ELSE LET gitroot == path_parent(path_parent(gitpath))
             gitbash == gitroot \o <<"bin", "bash.exe">>
         IN  IF TRUE THEN gitbash ELSE <<"bash.exe">>

BashPath(is_win, where_ok, gitpath, bash_exists) ==
    /\ fcall.fn = "none"
    /\ fcall' = [fn |-> "bash_path", is_win |-> is_win, where_ok |-> where_ok,
                 gitpath |-> gitpath, bash_exists |-> bash_exists]
    /\ fresult' = bash_path(is_win, where_ok, gitpath, bash_exists)
    /\ environ' = environ

\* C23: bash_path gives a bare interpreter name whenever discovery fails:
\* "bash" off Windows; on Windows "bash.exe" when the where query fails and
\* when <git root>/bin/bash.exe does not exist, and the derived path only
\* when that file exists.
C23_BashPathFallback ==
    fcall.fn = "bash_path" =>
        fresult = IF ~fcall.is_win THEN <<"bash">>
                  ELSE IF ~fcall.where_ok \/ ~fcall.bash_exists THEN <<"bash.exe">>
                  ELSE path_parent(path_parent(fcall.gitpath)) \o <<"bin", "bash.exe">>

\* FolderKnowledgeRepository._dir on a repository directory that holds the
\* folders `folders` (in the order os.walk lists them) and the files
\* `filenames`; every folder holds one file, p.kp
FolderNames == {".a", ".b", "c", "x.kp"}
FileNames == {"r.kp", "n.txt"}
RECURSIVE Orderings(_)
Orderings(S) ==
    IF S = {} THEN {<<>>}
    ELSE UNION {{<<x>> \o o : o \in Orderings(S \ {x})} : x \in S}
FolderLists == UNION {Orderings(S) : S \in {T \in SUBSET FolderNames : Cardinality(T) <= MaxFolders}}
startswith_dot(name) == name \in {".a", ".b", "."}
endswith_kp(name) == name \in {"x.kp", "r.kp", "p.kp"}

\* for folder in folders: if folder.startswith("."): folders.remove(folder)
\* the loop goes on at the next index of the list it has just shortened
RECURSIVE remove_hidden(_, _)
remove_hidden(folders, i) ==
    IF i > Len(folders) THEN folders
    ELSE IF startswith_dot(folders[i])
         THEN remove_hidden(SubSeq(folders, 1, i - 1)
                               \o SubSeq(folders, i + 1, Len(folders)), i + 1)
         ELSE remove_hidden(folders, i + 1)

Range(seq) == {seq[i] : i \in DOMAIN seq}
\* the posts one step of os.walk adds: relpath is the walked directory
\* relative to the repository, <<".">> for the repository itself
walk_posts(relpath, folders, filenames) ==
    {relpath \o <<f>> : f \in {g \in Range(remove_hidden(folders, 1)) : endswith_kp(g)}}
        \cup {relpath \o <<f>> : f \in {g \in filenames : endswith_kp(g)}}

\* position of a post path in the order of its text ("." sorts before "/"
\* and both before the letters)
PostOrder == << <<".a", "p.kp">>, <<".b", "p.kp">>, <<"c", "p.kp">>, <<"r.kp">>,
               <<"x.kp">>, <<"x.kp", "p.kp">> >>
RECURSIVE sorted(_, _)
sorted(posts, i) ==
    IF i > Len(PostOrder) THEN <<>>
    ELSE (IF PostOrder[i] \in posts THEN <<PostOrder[i]>> ELSE <<>>)
            \o sorted(posts, i + 1)

\* post[2:] if post.startswith("./") else post
strip_dot(post) == IF post[1] = "." THEN Tail(post) ELSE post

\* variant: the requested statuses are not looked at
_dir_all(folders, filenames, prefix, statuses) ==
    LET top == IF prefix = "" THEN walk_posts(<<".">>, folders, filenames) ELSE {}
        visited == IF prefix = "" THEN Range(remove_hidden(folders, 1))
                   ELSE Range(folders) \cap {prefix}
        below == UNION {walk_posts(<<f>>, <<>>, {"p.kp"}) : f \in visited}
    IN  sorted({strip_dot(post) : post \in top \cup below}, 1)
_dir(folders, filenames, prefix, statuses) ==
    IF "PUBLISHED" \in statuses
    THEN LET top == IF prefix = "" THEN walk_posts(<<".">>, folders, filenames) ELSE {}
             visited == IF prefix = "" THEN Range(remove_hidden(folders, 1))
                        ELSE Range(folders) \cap {prefix}
             below == UNION {walk_posts(<<f>>, <<>>, {"p.kp"}) : f \in visited}
         IN  sorted({strip_dot(post) : post \in top \cup below}, 1)
    ELSE <<>>

Dir(folders, filenames, prefix, statuses) ==
    /\ fcall.fn = "none"
    /\ fcall' = [fn |-> "_dir", folders |-> folders, files |-> filenames,
                 prefix |-> prefix, statuses |-> statuses]
    /\ fresult' = _dir(folders, filenames, prefix, statuses)
    /\ environ' = environ

\* C25: the repository listing never visits hidden folders: whatever the
\* directory holds, several dot-folders side by side included, dir yields no
\* post inside a folder whose name starts with "." and no such folder.
C25_HiddenFoldersSkipped ==
    fcall.fn = "_dir" =>
        \A i \in DOMAIN fresult :
            \A k \in DOMAIN fresult[i] : ~startswith_dot(fresult[i][k])

\* the .kp filenames and folders under the prefix that are in no dot-folder
KpUnder(folders, filenames, prefix) ==
    IF prefix = ""
    THEN {<<f>> : f \in {g \in Range(folders) \cup filenames : endswith_kp(g)}}
            \cup {<<f, "p.kp">> : f \in {g \in Range(folders) : ~startswith_dot(g)}}
    ELSE {<<f, "p.kp">> : f \in Range(folders) \cap {prefix}}

\* C26: the listing agrees with status: dir(prefix, statuses) yields only
\* posts whose status (always PUBLISHED) is among statuses, so nothing when
\* PUBLISHED is not requested; otherwise it yields each .kp file or folder
\* under prefix (outside hidden folders) exactly once, in sorted order and
\* without a leading "./".
C26_ListingAgreesWithStatus ==
    fcall.fn = "_dir" =>
        /\ "PUBLISHED" \notin fcall.statuses => fresult = <<>>
        /\ "PUBLISHED" \in fcall.statuses =>
              /\ KpUnder(fcall.folders, fcall.files, fcall.prefix) \subseteq Range(fresult)
              /\ \A i \in DOMAIN fresult :
                    /\ endswith_kp(fresult[i][Len(fresult[i])])
                    /\ fresult[i][1] # "."
                    /\ fcall.prefix # "" => fresult[i][1] = fcall.prefix
                    /\ Len(fresult[i]) = 1 =>
                          fresult[i][1] \in Range(fcall.folders) \cup fcall.files
                    /\ Len(fresult[i]) = 2 => fresult[i][1] \in Range(fcall.folders)
              /\ \A i, j \in DOMAIN fresult : i < j =>
                    \E a, b \in DOMAIN PostOrder :
                        a < b /\ PostOrder[a] = fresult[i] /\ PostOrder[b] = fresult[j]
C26_Witness ==
    /\ fcall.fn = "_dir" /\ fcall.prefix = "" /\ "PUBLISHED" \in fcall.statuses
    /\ fresult = << <<"c", "p.kp">>, <<"r.kp">>, <<"x.kp">>, <<"x.kp", "p.kp">> >>

\* ParseRepositories: one call for each --repo value.  A value is the name
\* in braces (<<>> when there is none, the None of the pattern) and the URI.
RepoValues == [name : {<<>>, <<"a">>, <<"b">>}, uri : {"u1", "u2"}]
RepoValueLists == UNION {[1..n -> RepoValues] : n \in 1..MaxRepos}
\* os.environ.get('KNOWLEDGE_REPO', None)
RepoDefaults == {[kind |-> "None"], [kind |-> "str", uri |-> "u1"]}

\* the namespace attribute, the action's _repo_dict and whether it raised
RECURSIVE parse_repositories(_, _, _, _)
parse_repositories(values, default, i, st) ==
    IF i > Len(values) \/ st.error THEN st
    ELSE LET nmspc == st.nmspc
             repo_dict == IF nmspc.kind = "None" \/ nmspc = default
                          THEN <<>> ELSE st.repo_dict
             name == values[i].name
             added == [n \in DOMAIN repo_dict \cup {name} |->
                         IF n = name THEN values[i].uri ELSE repo_dict[n]]
         IN  IF name \in DOMAIN repo_dict
             THEN [st EXCEPT !.error = TRUE]
             ELSE IF <<>> \in DOMAIN added /\ Cardinality(DOMAIN added) > 1
             THEN [st EXCEPT !.error = TRUE, !.repo_dict = added]
             ELSE parse_repositories(values, default, i + 1,
                     [error |-> FALSE, repo_dict |-> added,
                      nmspc |-> IF <<>> \in DOMAIN added
                                THEN [kind |-> "str", uri |-> added[<<>>]]
                                ELSE [kind |-> "dict", dict |-> added]])

ParseRepos(values, default) ==
    /\ fcall.fn = "none"
    /\ fcall' = [fn |-> "ParseRepositories", values |-> values, default |-> default]
    /\ fresult' = parse_repositories(values, default, 1,
                     [error |-> FALSE, repo_dict |-> <<>>, nmspc |-> default])
    /\ environ' = environ

\* C27: for any --repo values and any KNOWLEDGE_REPO default, parsing raises
\* ValueError when more than one repository is given and one of them has no
\* {name} prefix, and when two repositories share a name; otherwise the
\* result is the URI (one unnamed repository) or a dict of every given name
\* with its URI.
C27_ParseRepositories ==
    fcall.fn = "ParseRepositories" =>
        LET values == fcall.values
            unnamed == \E i \in DOMAIN values : values[i].name = <<>>
            shared == \E i, j \in DOMAIN values : i # j /\ values[i].name = values[j].name
        IN  IF (Len(values) > 1 /\ unnamed) \/ shared
            THEN fresult.error
            ELSE /\ ~fresult.error
                 /\ fresult.nmspc =
                       IF unnamed THEN [kind |-> "str", uri |-> values[1].uri]
                       ELSE [kind |-> "dict",
                             dict |-> [n \in {values[i].name : i \in DOMAIN values} |->
                                         (CHOOSE v \in Range(values) : v.name = n).uri]]

\* The command line tool's entry: process calls parse_args, which calls
\* handle_basic_args.  An outcome is a return or a raised exception;
\* reexec tells whether the pinned tooling was run as a subprocess.
handle_basic_args(version, repo, dev, required_tooling_version, rc, allowexit) ==
    IF version THEN [raised |-> "SystemExit", code |-> 0, reexec |-> FALSE]
    ELSE IF repo = "None" THEN [raised |-> "ValueError", reexec |-> FALSE]
    ELSE IF repo = "loaded" /\ ~dev /\ required_tooling_version = "!"
    THEN IF rc # 0 /\ allowexit
         THEN [raised |-> "SystemExit", code |-> rc, reexec |-> TRUE]
         ELSE [raised |-> "SystemExit", code |-> 0, reexec |-> TRUE]
    ELSE [raised |-> "none", reexec |-> FALSE]

parse_args(basic, allowexit) ==
    IF basic.raised = "SystemExit"
    THEN IF allowexit
         THEN [raised |-> "SystemExit", code |-> 0, reexec |-> basic.reexec]
         ELSE [raised |-> "none", value |-> FALSE, reexec |-> basic.reexec]
    ELSE IF basic.raised = "ValueError" THEN basic
    ELSE [raised |-> "none", value |-> TRUE, reexec |-> basic.reexec]

\* what the process ends with: handled tells whether handle_args ran
process(version, repo, dev, required_tooling_version, rc, allowexit) ==
    LET x == parse_args(handle_basic_args(version, repo, dev,
                            required_tooling_version, rc, allowexit), allowexit)
    IN  IF x.raised = "SystemExit"
        THEN [exit |-> x.code, handled |-> FALSE, reexec |-> x.reexec]
        ELSE IF x.raised = "ValueError"
        THEN [exit |-> 1, handled |-> FALSE, reexec |-> x.reexec]
        ELSE [exit |-> 0, handled |-> x.value, reexec |-> x.reexec]

Process(version, repo, dev, required_tooling_version, rc, allowexit) ==
    /\ fcall.fn = "none"
    /\ fcall' = [fn |-> "process", rc |-> rc, allow_exit |-> allowexit]
    /\ fresult' = process(version, repo, dev, required_tooling_version, rc, allowexit)
    /\ environ' = environ

\* C28: when the pinned tooling ('!' revision) was re-executed and exited
\* with a non-zero code rc while allow_exit is true, the calling process
\* exits with status rc; and after a re-exec the action handlers never run
\* in this process.
C28_ReexecExitStatus ==
    (fcall.fn = "process" /\ fresult.reexec) =>
        /\ ~fresult.handled
        /\ (fcall.rc # 0 /\ fcall.allow_exit) => fresult.exit = fcall.rc

\* converters/html.py: the markdown preprocessors, over lists of lines.
\* tab_length is 4: two of the lines start with four spaces.
MdLines == {"", "x", "    y", "    "}
MdLineLists == UNION {[1..n -> MdLines] : n \in 0..MaxLines}
startswith_indent(line) == line \in {"    y", "    "}

insert(lines, i, line) ==
    [k \in 1..(Len(lines) + 1) |->
        IF k < i THEN lines[k] ELSE IF k = i THEN line ELSE lines[k - 1]]

\* a run that inserts nothing
IndentsAsCellOutputPreprocessor_run_plain(lines, i, in_block, block_startable, inserted) ==
    [lines |-> lines, inserted |-> inserted]

\* The loop walks the list by position while the list grows: after an
\* insert at i the line that was at i is met again at i + 1.  inserted
\* keeps the positions (in the final list) of the lines the loop put in.
RECURSIVE IndentsAsCellOutputPreprocessor_run(_, _, _, _, _)
IndentsAsCellOutputPreprocessor_run(lines, i, in_block, block_startable, inserted) ==
    IF i > Len(lines) THEN [lines |-> lines, inserted |-> inserted]
    ELSE IF ~startswith_indent(lines[i])
    THEN IF in_block
         THEN IF lines[i] # ""
              THEN IndentsAsCellOutputPreprocessor_run(insert(lines, i, ""), i + 1,
                       FALSE, block_startable, inserted \cup {i})
              ELSE IndentsAsCellOutputPreprocessor_run(lines, i + 1,
                       FALSE, block_startable, inserted)
         ELSE IndentsAsCellOutputPreprocessor_run(lines, i + 1,
                  in_block, lines[i] = "", inserted)
    ELSE IF block_startable /\ ~in_block
    THEN IndentsAsCellOutputPreprocessor_run(lines, i + 1, TRUE, block_startable, inserted)
    ELSE IndentsAsCellOutputPreprocessor_run(lines, i + 1, in_block, block_startable, inserted)

IndentsRun(lines) ==
    /\ fcall.fn = "none"
    /\ fcall' = [fn |-> "IndentsAsCellOutputPreprocessor.run", lines |-> lines]
    /\ fresult' = IndentsAsCellOutputPreprocessor_run(lines, 1, FALSE, TRUE, {})
    /\ environ' = environ

\* the lines of seq at the positions outside the set drop, in order
RECURSIVE without(_, _, _)
without(seq, drop, k) ==
    IF k > Len(seq) THEN <<>>
    ELSE (IF k \in drop THEN <<>> ELSE <<seq[k]>>) \o without(seq, drop, k + 1)

\* an indented block of seq is at positions a..b: every line indented, the
\* run starts at the start or after an empty line and cannot be extended
IsBlock(seq, a, b) ==
    /\ a <= b
    /\ \A k \in a..b : startswith_indent(seq[k])
    /\ a = 1 \/ seq[a - 1] = ""
    /\ b = Len(seq) \/ ~startswith_indent(seq[b + 1])

\* C29: in the output of IndentsAsCellOutputPreprocessor.run every indented
\* block is followed by an empty line whenever a line follows it, and the
\* run only inserts empty lines: the output without the inserted lines is
\* the input.
C29_BlocksFollowedByBlank ==
    fcall.fn = "IndentsAsCellOutputPreprocessor.run" =>
        /\ \A a, b \in DOMAIN fresult.lines :
              (IsBlock(fresult.lines, a, b) /\ b < Len(fresult.lines))
                  => fresult.lines[b + 1] = ""
        /\ \A k \in fresult.inserted : k \in DOMAIN fresult.lines /\ fresult.lines[k] = ""
        /\ without(fresult.lines, fresult.inserted, 1) = fcall.lines

\* a block ended by a text line got an empty line, the block at the end
\* got none
C29_Witness ==
    /\ fcall.fn = "IndentsAsCellOutputPreprocessor.run"
    /\ fcall.lines = <<"    y", "x", "", "    y">>
    /\ fresult.lines = <<"    y", "", "x", "", "    y">>

strip(line) == IF line \in {"---", " --- "} THEN "---" ELSE IF line = "  " THEN "" ELSE line
MetaLines == {"---", " --- ", "a", "  "}
MetaLineLists == UNION {[1..n -> MetaLines] : n \in 0..MaxLines}

\* the position the loop stops at (0: the loop body never ran, i unbound)
RECURSIVE meta_loop(_, _, _)
meta_loop(lines, i, cnt) ==
    IF i > Len(lines) THEN i - 1
    ELSE LET c == IF strip(lines[i]) = "---" THEN cnt + 1 ELSE cnt
         IN  IF c = 2 THEN i ELSE meta_loop(lines, i + 1, c)

KnowledgeMetaPreprocessor_run(lines) ==
    LET i == meta_loop(lines, 1, 0)
    IN  IF i = 0 THEN [error |-> TRUE, lines |-> <<>>]
        ELSE [error |-> FALSE, lines |-> SubSeq(lines, i + 1, Len(lines))]

MetaRun(lines) ==
    /\ fcall.fn = "none"
    /\ fcall' = [fn |-> "KnowledgeMetaPreprocessor.run", lines |-> lines]
    /\ fresult' = KnowledgeMetaPreprocessor_run(lines)
    /\ environ' = environ

\* C30: KnowledgeMetaPreprocessor.run removes only the metadata header: with
\* two or more lines whose stripped text is '---' it returns the lines after
\* the second of them, and with fewer (the empty input included) it returns
\* without error and drops no content line.
C30_OnlyHeaderRemoved ==
    fcall.fn = "KnowledgeMetaPreprocessor.run" =>
        LET lines == fcall.lines
            marks == {k \in DOMAIN lines : strip(lines[k]) = "---"}
        IN  IF Cardinality(marks) >= 2
            THEN LET second == CHOOSE k \in marks :
                                  Cardinality({m \in marks : m < k}) = 1
                 IN  /\ ~fresult.error
                     /\ fresult.lines = SubSeq(lines, second + 1, Len(lines))
            ELSE /\ ~fresult.error
                 /\ \A k \in DOMAIN lines \ marks :
                       \E j \in DOMAIN fresult.lines : fresult.lines[j] = lines[k]

(***************************************************************************)
(* Specifications: one per component, the other components stand still    *)
(***************************************************************************)
vars == <<storeVars, gitVars, toolVars, openVars, archiveVars, bumpVars, fnVars>>

StoreIdle ==
    /\ disk = [p \in Posts |-> Absent]
    /\ lastw = [p \in Posts |-> EmptyRefs]
    /\ adds = [p \in Posts |-> 0]
    /\ first = [p \in Posts |-> NoData]
    /\ direct = [p \in Posts |-> FALSE]
    /\ last = NoCall

GitIdle == GitInit /\ hooks = [h \in HookNames |-> "none"]

ToolIdle == ToolInit /\ krdir = "absent"

OpenIdle == OpenInit /\ fs = [l \in Locs |-> NoDir]

ArchiveIdle == ArchiveInit /\ old = Packed(EmptyRefs)

BumpIdle == BumpInit /\ bnode = Packed(EmptyRefs)

FnIdle == FnInit /\ environ = <<>>

StoreFrame == UNCHANGED <<gitVars, toolVars, openVars, archiveVars, bumpVars, fnVars>>
GitFrame == UNCHANGED <<storeVars, toolVars, openVars, archiveVars, bumpVars, fnVars>>
ToolFrame == UNCHANGED <<storeVars, gitVars, openVars, archiveVars, bumpVars, fnVars>>
OpenFrame == UNCHANGED <<storeVars, gitVars, toolVars, archiveVars, bumpVars, fnVars>>
ArchiveFrame == UNCHANGED <<storeVars, gitVars, toolVars, openVars, bumpVars, fnVars>>
BumpFrame == UNCHANGED <<storeVars, gitVars, toolVars, openVars, archiveVars, fnVars>>
FnFrame == UNCHANGED <<storeVars, gitVars, toolVars, openVars, archiveVars, bumpVars>>

\* the folder repository
Init == StoreInit /\ GitIdle /\ ToolIdle /\ OpenIdle /\ ArchiveIdle /\ BumpIdle /\ FnIdle
Next ==
    \/ \E p \in Posts, n \in Names, d \in ContentData : Write(p, n, d) /\ StoreFrame
    \/ \E p \in Posts, n \in Names : Read(p, n) /\ StoreFrame
    \/ \E p \in Posts, n \in Names : Exists(p, n) /\ StoreFrame
    \/ \E p \in Posts, parent \in Parents : List(p, parent) /\ StoreFrame
    \/ \E p \in Posts, kp \in Kps, uuid \in Uuids, update \in BOOLEAN :
          Add(p, kp, uuid, update) /\ StoreFrame
    \/ \E p \in Posts : Remove(p) /\ StoreFrame
    \/ \E p \in Posts : Status(p) /\ StoreFrame
    \/ \E p \in Posts : Submit(p) /\ StoreFrame
    \/ \E p \in Posts : Publish(p) /\ StoreFrame
    \/ \E p \in Posts : Accept(p) /\ StoreFrame
    \/ \E p \in Posts : Unpublish(p) /\ StoreFrame
    \/ \E p \in Posts : ReadAt(p, <<"d">>, 1) /\ StoreFrame
    \/ \E p \in Posts : ExistsAt(p, <<"d">>, 1) /\ StoreFrame
    \/ \E p \in Posts : ListAt(p, <<>>, 1) /\ StoreFrame
Spec == Init /\ [][Next]_vars

\* the hook-aware commit
InitGit == StoreIdle /\ GitInit /\ ToolIdle /\ OpenIdle /\ ArchiveIdle /\ BumpIdle /\ FnIdle
NextGit ==
    \/ \E m \in Messages, skip \in BOOLEAN, hd \in BOOLEAN :
          CommitCall(m, skip, hd) /\ GitFrame
    \/ PreCommit /\ GitFrame
    \/ WriteEditmsg /\ GitFrame
    \/ CommitMsg /\ GitFrame
    \/ ReadEditmsg /\ GitFrame
    \/ RemoveEditmsg /\ GitFrame
    \/ WriteTree /\ GitFrame
    \/ CreateFromTree /\ GitFrame
    \/ PostCommit /\ GitFrame
SpecGit == InitGit /\ [][NextGit]_vars

\* the pinned tooling revision
InitTool == StoreIdle /\ GitIdle /\ ToolInit /\ OpenIdle /\ ArchiveIdle /\ BumpIdle /\ FnIdle
NextTool ==
    \/ \E ae \in BOOLEAN : StartRun(ae) /\ ToolFrame
    \/ \E net_ok \in BOOLEAN : CloneKr(net_ok) /\ ToolFrame
    \/ EnterMkdtemp /\ ToolFrame
    \/ \E ok \in BOOLEAN : EnterCheckout(ok) /\ ToolFrame
    \/ \E out \in BodyOutcomes : WithBody(out) /\ ToolFrame
    \/ Exit /\ ToolFrame
SpecTool == InitTool /\ [][NextTool]_vars

\* opening and creating a repository directory
InitOpen == StoreIdle /\ GitIdle /\ ToolIdle /\ OpenInit /\ ArchiveIdle /\ BumpIdle /\ FnIdle
NextOpen ==
    \/ \E uri \in Uris : Create(uri) /\ OpenFrame
    \/ \E uri \in Uris, auto_create \in BOOLEAN : FromUri(uri, auto_create) /\ OpenFrame
    \/ \E path \in Locs, filename \in TEMPLATES : UserWrite(path, filename) /\ OpenFrame
SpecOpen == InitOpen /\ [][NextOpen]_vars

\* rewriting a packed post
InitArchive == StoreIdle /\ GitIdle /\ ToolIdle /\ OpenIdle /\ ArchiveInit /\ BumpIdle /\ FnIdle
NextArchive ==
    \/ \E reference \in ContentNames, data \in ContentData :
          LoadAndWrite(reference, data) /\ ArchiveFrame
    \/ ToFileCreate /\ ArchiveFrame
    \/ ToFileWrite /\ ArchiveFrame
    \/ ToFileRename /\ ArchiveFrame
    \/ WriterDies /\ ArchiveFrame
    \/ ReaderOpens /\ ArchiveFrame
SpecArchive == InitArchive /\ [][NextArchive]_vars

\* several callers of _kp_new_revision
InitBump == StoreIdle /\ GitIdle /\ ToolIdle /\ OpenIdle /\ ArchiveIdle /\ BumpInit /\ FnIdle
NextBump ==
    \/ \E i \in Bumpers, uuid \in Uuids \cup {NoData} : BumpRead(i, uuid) /\ BumpFrame
    \/ \E i \in Bumpers : BumpWrite(i) /\ BumpFrame
    \/ \E i \in Bumpers : BumpUuid(i) /\ BumpFrame
SpecBump == InitBump /\ [][NextBump]_vars

\* the functions checked call by call
InitFn ==
    StoreIdle /\ GitIdle /\ ToolIdle /\ OpenIdle /\ ArchiveIdle /\ BumpIdle /\ FnInit
NextFn ==
    \/ FnReturn /\ FnFrame
    \/ \E index_path \in IndexPaths : RunHookEnv(index_path) /\ FnFrame
    \/ \E is_win, where_ok, bash_exists \in BOOLEAN, gitpath \in GitPaths :
          BashPath(is_win, where_ok, gitpath, bash_exists) /\ FnFrame
    \/ \E folders \in FolderLists, filenames \in SUBSET FileNames, prefix \in {"", "c"},
          statuses \in {{"PUBLISHED"}, {"DRAFT", "SUBMITTED", "UNPUBLISHED"}} :
          Dir(folders, filenames, prefix, statuses) /\ FnFrame
    \/ \E values \in RepoValueLists, default \in RepoDefaults :
          ParseRepos(values, default) /\ FnFrame
    \/ \E version, dev, allowexit \in BOOLEAN, repo \in {"None", "unloadable", "loaded"},
          required_tooling_version \in {"", "!", "1"}, rc \in 0..2 :
          Process(version, repo, dev, required_tooling_version, rc, allowexit) /\ FnFrame
    \/ \E lines \in MdLineLists : IndentsRun(lines) /\ FnFrame
    \/ \E lines \in MetaLineLists : MetaRun(lines) /\ FnFrame
SpecFn == InitFn /\ [][NextFn]_vars
====
